---- MODULE Spec2Model ----
(***************************************************************************)
(* derive: a content-addressed incremental build tool.  One invocation     *)
(* loads the lockfile, then for every selected task resolves its files,    *)
(* hashes them, diffs against the task's lock entry, conditionally runs    *)
(* the external runner, and finally writes the lockfile back.              *)
(*                                                                         *)
(* Strings that the code sorts or concatenates (paths, digests, roots)     *)
(* are sequences of UTF-16 code units.  SHA-256 is modelled as a           *)
(* collision-free hash: the digest of a byte string is the prefix          *)
(* "sha256:" followed by an injective rendering of the bytes hashed.       *)
(***************************************************************************)
EXTENDS Integers, Sequences, FiniteSets, TLC

(***************************************************************************)
(* Bounds of the model                                                     *)
(***************************************************************************)
MaxInvocations == 2
MaxEdits == 1
MaxContent == 2
MaxFiles == 2
MaxPatterns == 2

(***************************************************************************)
(* The working directory and the configuration                             *)
(***************************************************************************)
PathA == <<97>>
PathB == <<98>>
PathC == <<99>>
Paths == {PathA, PathB, PathC}

TaskNames == {"t1", "t2"}
NoTask == "-"
NoEntry == [none |-> TRUE]
NoCtx == [none |-> TRUE]
\* ".derive.lock"
LockPath == <<46, 100, 101, 114, 105, 118, 101, 46, 108, 111, 99, 107>>
Missing == [kind |-> "missing"]
Malformed == [kind |-> "malformed"]

\* The config files the tool may find: task names in key order.
Configs == {<<"t1", "t2">>, <<"t2">>}

\* Each glob pattern is the set of paths of the directory tree it matches.
Sources == [t \in TaskNames |-> IF t = "t1" THEN <<{PathA, PathB}>> ELSE <<{PathB, PathC}>>]
Exclude == [t \in TaskNames |-> IF t = "t1" THEN <<>> ELSE <<{PathB}>>]

(***************************************************************************)
(* Strings                                                                 *)
(***************************************************************************)
\* Array.prototype.sort() default order: by UTF-16 code units.
LexLess(p, q) ==
  \E i \in 1..(Len(p) + 1) :
    /\ \A j \in 1..(i - 1) : j <= Len(q) /\ p[j] = q[j]
    /\ \/ i > Len(p) /\ i <= Len(q)
       \/ i <= Len(p) /\ i <= Len(q) /\ p[i] < q[i]

RECURSIVE SortPaths(_)
SortPaths(S) ==
  IF S = {} THEN <<>>
  ELSE LET m == CHOOSE x \in S : \A y \in S \ {x} : LexLess(x, y)
       IN <<m>> \o SortPaths(S \ {m})

SeqToSet(s) == {s[i] : i \in 1..Len(s)}

RECURSIVE UnionAll(_)
UnionAll(pats) ==
  IF pats = <<>> THEN {} ELSE Head(pats) \cup UnionAll(Tail(pats))

(***************************************************************************)
(* hash.ts                                                                 *)
(***************************************************************************)
Sha256Prefix == <<115, 104, 97, 50, 53, 54, 58>>

\* Lowercase hex rendering of the digest of a file whose content is c.
HexOfContent(c) == <<48 + c>>

\* hashFile: "sha256:" + hex digest of the bytes read.
hashFile(c) == Sha256Prefix \o HexOfContent(c)

\* Record<string,string> in insertion order: a sequence of <<key, value>>.
Keys(rec) == [i \in 1..Len(rec) |-> rec[i][1]]
Has(rec, k) == \E i \in 1..Len(rec) : rec[i][1] = k
Get(rec, k) == LET i == CHOOSE i \in 1..Len(rec) : rec[i][1] = k IN rec[i][2]

\* Keys every plain object inherits from Object.prototype ("constructor";
\* likewise "toString", "valueOf", "hasOwnProperty", ...).
PathProto == <<99, 111, 110, 115, 116, 114, 117, 99, 116, 111, 114>>
ObjectPrototypeKeys == {PathProto}

\* k in rec: own keys and the keys found along the prototype chain.
In(rec, k) == Has(rec, k) \/ k \in ObjectPrototypeKeys

RECURSIVE MerkleBytes(_, _)
MerkleBytes(sortedPaths, fileHashes) ==
  IF sortedPaths = <<>> THEN <<>>
  ELSE Head(sortedPaths) \o <<58>> \o Get(fileHashes, Head(sortedPaths)) \o <<10>>
         \o MerkleBytes(Tail(sortedPaths), fileHashes)

\* A root that hashes the entries in enumeration order, without the sort.
computeMerkleRootUnsorted(fileHashes) ==
  Sha256Prefix \o MerkleBytes(Keys(fileHashes), fileHashes)

computeMerkleRoot(fileHashes) ==
  Sha256Prefix \o MerkleBytes(SortPaths(SeqToSet(Keys(fileHashes))), fileHashes)

\* A resolver that does not pass the exclude patterns to fast-glob.
resolveFilesNoIgnore(sources, exclude, dir) ==
  SortPaths({p \in UnionAll(sources) : dir[p] # 0})

\* fast-glob over the sources with the excludes ignored, deduplicated, sorted.
resolveFiles(sources, exclude, dir) ==
  SortPaths({p \in UnionAll(sources) \ UnionAll(exclude) : dir[p] # 0})

(***************************************************************************)
(* lock.ts                                                                 *)
(***************************************************************************)
EmptyLock == [version |-> 1, tasks |-> <<>>]

\* lock.tasks[name]
TaskEntry(tasks, name) == IF Has(tasks, name) THEN Get(tasks, name) ELSE NoEntry

\* updatedLock.tasks[name] = entry: replaces in place, or appends a new key.
SetTask(tasks, name, entry) ==
  IF Has(tasks, name)
  THEN [i \in 1..Len(tasks) |-> IF tasks[i][1] = name THEN <<name, entry>> ELSE tasks[i]]
  ELSE Append(tasks, <<name, entry>>)

\* new Date().toISOString(): the decimal digits of the clock reading.
RECURSIVE toISOString(_)
toISOString(n) ==
  IF n < 10 THEN <<48 + n>> ELSE toISOString(n \div 10) \o <<48 + (n % 10)>>

\* A JSON document is the sequence of its tokens, each a sequence of code
\* units; the white space JSON.stringify(_, null, 2) puts between tokens
\* is skipped by the parser and left out.
LBrace == <<123>>
RBrace == <<125>>
Colon == <<58>>
Comma == <<44>>

KeyVersion == <<118, 101, 114, 115, 105, 111, 110>>
KeyTasks == <<116, 97, 115, 107, 115>>
KeyLastRun == <<108, 97, 115, 116, 95, 114, 117, 110>>
KeySourcesHash == <<115, 111, 117, 114, 99, 101, 115, 95, 104, 97, 115, 104>>
KeyFiles == <<102, 105, 108, 101, 115>>

\* The code units of a task name, and the task name of code units.
NameUnits(t) ==
  IF t = "t1" THEN <<116, 49>> ELSE IF t = "t2" THEN <<116, 50>> ELSE PathProto
NameOf(u) == IF u = <<116, 49>> THEN "t1" ELSE "t2"

\* JSON.stringify of a string, between the quotes: ", \ and line feed are
\* written as \", \\ and \n.
RECURSIVE Escape(_)
Escape(str) ==
  IF str = <<>> THEN <<>>
  ELSE (IF Head(str) = 34 THEN <<92, 34>>
        ELSE IF Head(str) = 92 THEN <<92, 92>>
        ELSE IF Head(str) = 10 THEN <<92, 110>>
        ELSE <<Head(str)>>) \o Escape(Tail(str))

\* JSON.parse of the inside of a string literal.
RECURSIVE Unescape(_)
Unescape(lit) ==
  IF lit = <<>> THEN <<>>
  ELSE IF Head(lit) = 92 /\ Len(lit) >= 2
  THEN <<IF lit[2] = 110 THEN 10 ELSE lit[2]>> \o Unescape(Tail(Tail(lit)))
  ELSE <<Head(lit)>> \o Unescape(Tail(lit))

\* A string literal written without escapes.
QuoteRaw(str) == <<34>> \o str \o <<34>>

Quote(str) == <<34>> \o Escape(str) \o <<34>>
Unquote(tok) == Unescape(SubSeq(tok, 2, Len(tok) - 1))

\* JSON.stringify of an object whose members are given as token sequences.
RECURSIVE Members(_)
Members(ms) ==
  IF ms = <<>> THEN <<>>
  ELSE IF Len(ms) = 1 THEN ms[1]
  ELSE ms[1] \o <<Comma>> \o Members(Tail(ms))

Object(ms) == <<LBrace>> \o Members(ms) \o <<RBrace>>
Member(key, valueTokens) == <<Quote(key), Colon>> \o valueTokens

StringifyFiles(files) ==
  Object([i \in 1..Len(files) |-> Member(files[i][1], <<Quote(files[i][2])>>)])

StringifyEntry(e) ==
  Object(<<Member(KeyLastRun, <<Quote(e.last_run)>>),
           Member(KeySourcesHash, <<Quote(e.sources_hash)>>),
           Member(KeyFiles, StringifyFiles(e.files))>>)

StringifyTasks(tasks) ==
  Object([i \in 1..Len(tasks) |->
            Member(NameUnits(tasks[i][1]), StringifyEntry(tasks[i][2]))])

\* JSON.stringify(lock, null, 2) + "\n"
Serialize(lock) ==
  [kind |-> "json",
   text |-> Object(<<Member(KeyVersion, <<<<48 + lock.version>>>>),
                     Member(KeyTasks, StringifyTasks(lock.tasks))>>)]

\* obj[key] = value while parsing: a repeated key keeps its place.
PutMember(obj, key, value) ==
  IF Has(obj, key)
  THEN [i \in 1..Len(obj) |-> IF obj[i][1] = key THEN <<key, value>> ELSE obj[i]]
  ELSE Append(obj, <<key, value>>)

\* JSON.parse: the value that starts at token i, and the token after it.
\* An object is read as its members in order, a string literal as its
\* string, a number as its value.
RECURSIVE ParseValue(_, _), ParseMembers(_, _, _)
ParseValue(toks, i) ==
  IF toks[i] = LBrace THEN ParseMembers(toks, i + 1, <<>>)
  ELSE IF Head(toks[i]) = 34 THEN [v |-> Unquote(toks[i]), next |-> i + 1]
  ELSE [v |-> toks[i][1] - 48, next |-> i + 1]

ParseMembers(toks, i, obj) ==
  IF toks[i] = RBrace THEN [v |-> obj, next |-> i + 1]
  ELSE IF toks[i] = Comma THEN ParseMembers(toks, i + 1, obj)
  ELSE LET value == ParseValue(toks, i + 2)
       IN ParseMembers(toks, value.next, PutMember(obj, Unquote(toks[i]), value.v))

\* The DeriveLock that a parsed document is used as.
EntryOfObject(obj) ==
  [last_run |-> Get(obj, KeyLastRun),
   sources_hash |-> Get(obj, KeySourcesHash),
   files |-> Get(obj, KeyFiles)]

\* file.json(): the parsed document.
Parse(bytes) ==
  LET doc == ParseValue(bytes.text, 1).v
      tasks == Get(doc, KeyTasks)
  IN [version |-> Get(doc, KeyVersion),
      tasks |-> [i \in 1..Len(tasks) |->
                   <<NameOf(tasks[i][1]), EntryOfObject(tasks[i][2])>>]]

\* A diff that reports a first run as changed only when files matched.
diffTaskFirstRunByFiles(taskName, currentFiles, currentRoot, lockEntry) ==
  LET allFiles == Keys(currentFiles)
      Differs(kv) == (IF Has(lockEntry.files, kv[1]) THEN Get(lockEntry.files, kv[1]) ELSE <<>>) # kv[2]
      Gone(kv) == ~In(currentFiles, kv[1])
      changed == Keys(SelectSeq(currentFiles, Differs))
      removed == Keys(SelectSeq(lockEntry.files, Gone))
  IN IF lockEntry = NoEntry
     THEN [task |-> taskName, changed |-> Len(allFiles) > 0, changed_files |-> allFiles,
           removed_files |-> <<>>, all_files |-> allFiles]
     ELSE IF lockEntry.sources_hash = currentRoot
     THEN [task |-> taskName, changed |-> FALSE, changed_files |-> <<>>,
           removed_files |-> <<>>, all_files |-> allFiles]
     ELSE [task |-> taskName, changed |-> Len(changed) > 0 \/ Len(removed) > 0,
           changed_files |-> changed, removed_files |-> removed, all_files |-> allFiles]

\* A diff without the Merkle-root quick check: always the per-file walk.
diffTaskNoFastPath(taskName, currentFiles, currentRoot, lockEntry) ==
  LET allFiles == Keys(currentFiles)
      Differs(kv) == (IF Has(lockEntry.files, kv[1]) THEN Get(lockEntry.files, kv[1]) ELSE <<>>) # kv[2]
      Gone(kv) == ~In(currentFiles, kv[1])
      changed == Keys(SelectSeq(currentFiles, Differs))
      removed == Keys(SelectSeq(lockEntry.files, Gone))
  IN IF lockEntry = NoEntry
     THEN [task |-> taskName, changed |-> TRUE, changed_files |-> allFiles,
           removed_files |-> <<>>, all_files |-> allFiles]
     ELSE [task |-> taskName, changed |-> Len(changed) > 0 \/ Len(removed) > 0,
           changed_files |-> changed, removed_files |-> removed, all_files |-> allFiles]

\* A diff whose per-file walk reports every current file as changed.
diffTaskAllChanged(taskName, currentFiles, currentRoot, lockEntry) ==
  LET allFiles == Keys(currentFiles)
      Gone(kv) == ~In(currentFiles, kv[1])
      removed == Keys(SelectSeq(lockEntry.files, Gone))
  IN IF lockEntry = NoEntry
     THEN [task |-> taskName, changed |-> TRUE, changed_files |-> allFiles,
           removed_files |-> <<>>, all_files |-> allFiles]
     ELSE IF lockEntry.sources_hash = currentRoot
     THEN [task |-> taskName, changed |-> FALSE, changed_files |-> <<>>,
           removed_files |-> <<>>, all_files |-> allFiles]
     ELSE [task |-> taskName, changed |-> Len(allFiles) > 0 \/ Len(removed) > 0,
           changed_files |-> allFiles, removed_files |-> removed, all_files |-> allFiles]

diffTask(taskName, currentFiles, currentRoot, lockEntry) ==
  LET allFiles == Keys(currentFiles)
      Differs(kv) == (IF Has(lockEntry.files, kv[1]) THEN Get(lockEntry.files, kv[1]) ELSE <<>>) # kv[2]
      Gone(kv) == ~In(currentFiles, kv[1])
      changed == Keys(SelectSeq(currentFiles, Differs))
      removed == Keys(SelectSeq(lockEntry.files, Gone))
  IN IF lockEntry = NoEntry
     THEN [task |-> taskName, changed |-> TRUE, changed_files |-> allFiles,
           removed_files |-> <<>>, all_files |-> allFiles]
     ELSE IF lockEntry.sources_hash = currentRoot
     THEN [task |-> taskName, changed |-> FALSE, changed_files |-> <<>>,
           removed_files |-> <<>>, all_files |-> allFiles]
     ELSE [task |-> taskName, changed |-> Len(changed) > 0 \/ Len(removed) > 0,
           changed_files |-> changed, removed_files |-> removed, all_files |-> allFiles]

(***************************************************************************)
(* The config module: validateConfig                                       *)
(***************************************************************************)
\* The fields of a config that the schema can find fault with, as issue
\* paths.
Flaws ==
  {<<"runner">>} \cup {<<"tasks", t, f>> : t \in TaskNames, f \in {"prompt", "sources"}}

\* The config with the tasks `names` in which the fields `flaws` are empty.
Raw(names, flaws) ==
  [runner |-> IF <<"runner">> \in flaws THEN "" ELSE "run {prompt}",
   tasks |-> [i \in 1..Len(names) |->
                <<names[i],
                  [prompt |-> IF <<"tasks", names[i], "prompt">> \in flaws THEN "" ELSE "p",
                   sources |-> IF <<"tasks", names[i], "sources">> \in flaws
                               THEN <<>> ELSE Sources[names[i]],
                   exclude |-> Exclude[names[i]]]>>]]

\* DeriveConfigSchema.runner: min(1)
RunnerIssues(raw) ==
  IF raw.runner = ""
  THEN <<[path |-> <<"runner">>, message |-> "runner must not be empty"]>>
  ELSE <<>>

\* A task schema that accepts an empty sources list.
TaskIssuesPromptOnly(name, task) ==
  IF task.prompt = ""
  THEN <<[path |-> <<"tasks", name, "prompt">>, message |-> "prompt must not be empty"]>>
  ELSE <<>>

\* TaskConfigSchema: prompt min(1), then sources min(1).
TaskIssues(name, task) ==
  (IF task.prompt = ""
   THEN <<[path |-> <<"tasks", name, "prompt">>, message |-> "prompt must not be empty"]>>
   ELSE <<>>)
  \o (IF task.sources = <<>>
      THEN <<[path |-> <<"tasks", name, "sources">>, message |-> "sources must not be empty"]>>
      ELSE <<>>)

\* DeriveConfigSchema.tasks: every task in key order, then the refinement.
RECURSIVE TasksIssues(_)
TasksIssues(tasks) ==
  IF tasks = <<>> THEN <<>>
  ELSE TaskIssues(tasks[1][1], tasks[1][2]) \o TasksIssues(Tail(tasks))

Issues(raw) ==
  RunnerIssues(raw)
  \o TasksIssues(raw.tasks)
  \o (IF raw.tasks = <<>>
      THEN <<[path |-> <<"tasks">>, message |-> "tasks must not be empty"]>>
      ELSE <<>>)

\* validateConfig: the parsed config, or an error made of the first issue.
validateConfig(raw) ==
  IF Issues(raw) = <<>>
  THEN [success |-> TRUE, tasks |-> Keys(raw.tasks)]
  ELSE [success |-> FALSE, issue |-> Issues(raw)[1]]

\* Config files with one or two faulty fields.
FlawedConfigs == {Raw(<<"t1", "t2">>, {f, g}) : f, g \in Flaws}

(***************************************************************************)
(* State                                                                   *)
(***************************************************************************)
VARIABLES
  dir,            \* working directory: path -> content (0: no such file)
  lockfile,       \* .derive.lock on disk: Missing, Malformed or a document
  clock,          \* wall clock, read by new Date(); later in every invocation
  edits,          \* changes made to the disk from outside the tool so far
  invocations,    \* invocations of the tool started so far
  pc,             \* position of the running invocation in main()
  args,           \* parseCliArgs()
  config,         \* Object.keys(config.tasks) of the loaded config
  lock,           \* const lock = await readLock(lockPath)
  updatedLock,    \* processTasks: updatedLock
  anyFailed,      \* processTasks: anyFailed
  tasksToProcess, \* main: tasksToProcess
  idx,            \* processTasks: position of the for loop in taskNames
  ctx,            \* the TaskContext under construction or in use
  exitCode,       \* argument of process.exit, -1 while running
  outcome,        \* per task: what this invocation did with it
  runnerCalls,    \* per task: executeRunner calls in this invocation
  passed,         \* per task: changed-file list handed to assemblePrompt
  hashed,         \* per task: fileHashes built by prepareTask
  reads,          \* readLock calls in this invocation
  writes,         \* writeLock calls in this invocation
  written,        \* the lock handed to the last writeLock of this invocation
  loadedFrom,     \* the lockfile content that readLock found
  touched,        \* the disk was changed from outside since this invocation began
  editLog,        \* the changes made from outside since this invocation began
  prev,           \* how the previous invocation ended, if it was the same command
  configLoad,     \* loadAndValidateConfig: the config read and what validateConfig made of it
  history,        \* per task: how its runner last ended, if the disk is as it was then
  inA,            \* library call: fileHashes / currentFiles argument
  inB,            \* library call: a second fileHashes argument
  inRoot,         \* library call: currentRoot argument
  inEntry,        \* library call: lockEntry argument
  inArg,          \* library call: the arguments of the other exported functions
  procs,          \* two invocations running at once: the locals of each main()
  configFile,     \* derive.jsonc in the working directory: Missing or a text
  accessed,       \* handleInit: what access(configPath) found
  result          \* library call: the value returned

vars == <<dir, lockfile, clock, edits, invocations, pc, args, config, lock,
          updatedLock, anyFailed, tasksToProcess, idx, ctx, exitCode, outcome,
          runnerCalls, passed, hashed, reads, writes, written, loadedFrom,
          touched, editLog, prev, configLoad, history, inA, inB, inRoot, inEntry, inArg, procs,
          configFile, accessed, result>>

callVars == <<inA, inB, inRoot, inEntry, inArg, procs, configFile, accessed, result>>
diskVars == <<dir, lockfile, clock, edits, touched, editLog>>
procVars == <<pc, args, config, lock, updatedLock, anyFailed, tasksToProcess,
              idx, ctx, exitCode>>
ghostVars == <<outcome, runnerCalls, passed, hashed, reads, writes, written,
               loadedFrom, prev, configLoad, history>>

NoPrev == [none |-> TRUE]
NoRun == [none |-> TRUE]
NoRuns == [t \in TaskNames |-> NoRun]
NoLoad == [none |-> TRUE]
NoWrite == [none |-> TRUE]
NoHashes == <<<<"none">>>>
RunnerCodes == {0, 1}

\* A task name that no config defines and every plain object inherits.
TaskProto == "constructor"

ArgsSet == [status : BOOLEAN, dryRun : BOOLEAN, force : BOOLEAN,
            task : TaskNames \cup {NoTask, TaskProto}]

PlainArgs == [status |-> FALSE, dryRun |-> FALSE, force |-> FALSE, task |-> NoTask]

\* The command lines and config files of an invocation: every command line
\* with a faultless config, the bare command with a faulty one.
StartInputs ==
  (ArgsSet \X {Raw(cfg, {}) : cfg \in Configs}) \cup ({PlainArgs} \X FlawedConfigs)

\* args.task in config.tasks, for the config with the task names cfg.
InTasks(cfg, name) == name \in SeqToSet(cfg) \/ NameUnits(name) \in ObjectPrototypeKeys

NoResult == [none |-> TRUE]
NoArg == [none |-> TRUE]
NoProcs == [none |-> TRUE]
NotAccessed == [none |-> TRUE]

\* No library call is made from outside the tool.
NoCall ==
  /\ inA = <<>>
  /\ inB = <<>>
  /\ inRoot = <<>>
  /\ inEntry = NoEntry
  /\ inArg = NoArg
  /\ procs = NoProcs
  /\ configFile = Missing
  /\ accessed = NotAccessed
  /\ result = NoResult

ProgramInit ==
  /\ dir = [p \in Paths |-> 1]
  /\ lockfile = Missing
  /\ clock = 0
  /\ edits = 0
  /\ invocations = 0
  /\ pc = "idle"
  /\ args = [status |-> FALSE, dryRun |-> FALSE, force |-> FALSE, task |-> NoTask]
  /\ config = <<>>
  /\ lock = EmptyLock
  /\ updatedLock = EmptyLock
  /\ anyFailed = FALSE
  /\ tasksToProcess = <<>>
  /\ idx = 1
  /\ ctx = NoCtx
  /\ exitCode = -1
  /\ outcome = [t \in TaskNames |-> "none"]
  /\ runnerCalls = [t \in TaskNames |-> 0]
  /\ passed = [t \in TaskNames |-> <<>>]
  /\ hashed = [t \in TaskNames |-> NoHashes]
  /\ reads = 0
  /\ writes = 0
  /\ written = NoWrite
  /\ loadedFrom = Missing
  /\ touched = FALSE
  /\ editLog = <<>>
  /\ prev = NoPrev
  /\ configLoad = NoLoad
  /\ history = NoRuns

Init == ProgramInit /\ NoCall

(***************************************************************************)
(* The world outside the tool                                              *)
(***************************************************************************)
\* A file is created, rewritten or deleted: between two invocations, while
\* prepareTask awaits a hash, or while the runner is running.
EditFile ==
  /\ UNCHANGED callVars
  /\ edits < MaxEdits
  /\ pc \in {"exited", "hash", "running"}
  /\ \E p \in Paths, c \in 0..MaxContent :
       /\ c # dir[p]
       /\ dir' = [dir EXCEPT ![p] = c]
       /\ editLog' = Append(editLog, [path |-> p, from |-> dir[p], to |-> c,
                                      between |-> pc = "exited"])
  /\ edits' = edits + 1
  /\ touched' = TRUE
  /\ UNCHANGED <<lockfile, clock, invocations>>
  /\ UNCHANGED procVars
  /\ history' = NoRuns
  /\ UNCHANGED <<outcome, runnerCalls, passed, hashed, reads, writes, written,
                 loadedFrom, prev, configLoad>>

\* The lockfile is left truncated by an interrupted write.
TruncateLock ==
  /\ UNCHANGED callVars
  /\ edits < MaxEdits
  /\ pc \in {"idle", "exited"}
  /\ lockfile \notin {Missing, Malformed}
  /\ lockfile' = Malformed
  /\ editLog' = Append(editLog, [path |-> LockPath, from |-> 1, to |-> 0,
                                 between |-> TRUE])
  /\ edits' = edits + 1
  /\ touched' = TRUE
  /\ UNCHANGED <<dir, clock, invocations>>
  /\ UNCHANGED procVars
  /\ history' = NoRuns
  /\ UNCHANGED <<outcome, runnerCalls, passed, hashed, reads, writes, written,
                 loadedFrom, prev, configLoad>>

(***************************************************************************)
(* index.ts                                                                *)
(***************************************************************************)
\* process.exit(code)
Exit(code) ==
  /\ pc' = "exited"
  /\ exitCode' = code

\* How the runner of t ended in the invocation that is over, and whether t
\* was changed when it ran.
RunOf(t) ==
  [result |-> outcome[t],
   stale |-> diffTask(t, hashed[t], computeMerkleRoot(hashed[t]),
                      TaskEntry(lock.tasks, t)).changed]

\* main, up to the unknown-task check.  loadAndValidateConfig exits with 1
\* when validateConfig throws.
Start ==
  /\ UNCHANGED callVars
  /\ pc \in {"idle", "exited"}
  /\ invocations < MaxInvocations
  /\ invocations' = invocations + 1
  /\ \E inp \in StartInputs :
       LET a == inp[1]
           loaded == validateConfig(inp[2])
           cfg == IF loaded.success THEN loaded.tasks ELSE <<>>
       IN /\ args' = a
          /\ configLoad' = [raw |-> inp[2], result |-> loaded]
          /\ config' = cfg
          /\ prev' = IF loaded.success /\ pc = "exited" /\ a = args /\ cfg = config
                     THEN [exitCode |-> exitCode, touched |-> touched, edits |-> editLog]
                     ELSE NoPrev
          /\ IF ~loaded.success
             THEN Exit(1)
             ELSE IF a.task # NoTask /\ ~InTasks(cfg, a.task)
             THEN Exit(1)
             ELSE pc' = "readLock" /\ exitCode' = -1
  /\ lock' = EmptyLock
  /\ updatedLock' = EmptyLock
  /\ anyFailed' = FALSE
  /\ tasksToProcess' = <<>>
  /\ idx' = 1
  /\ ctx' = NoCtx
  /\ outcome' = [t \in TaskNames |-> "none"]
  /\ runnerCalls' = [t \in TaskNames |-> 0]
  /\ passed' = [t \in TaskNames |-> <<>>]
  /\ hashed' = [t \in TaskNames |-> NoHashes]
  /\ reads' = 0
  /\ writes' = 0
  /\ written' = NoWrite
  /\ loadedFrom' = Missing
  /\ touched' = FALSE
  /\ editLog' = <<>>
  /\ history' = IF touched THEN NoRuns
                ELSE [t \in TaskNames |-> IF outcome[t] \in {"ok", "failed"}
                                          THEN RunOf(t) ELSE history[t]]
  /\ clock' = clock + 1
  /\ UNCHANGED <<dir, lockfile, edits>>

\* readLock: the empty lock when the file is missing, else file.json().
readLock(bytes) == IF bytes = Missing THEN EmptyLock ELSE Parse(bytes)

\* A working copy that starts empty instead of from the loaded entries.
InitialUpdatedLockEmpty(l) == [version |-> 1, tasks |-> <<>>]

\* processTasks: const updatedLock = { version: 1, tasks: { ...lock.tasks } }
InitialUpdatedLock(l) == [version |-> 1, tasks |-> l.tasks]

\* A main that processes every configured task whatever args.task is.
ReadLockAllTasks ==
  /\ UNCHANGED callVars
  /\ pc = "readLock"
  /\ reads' = reads + 1
  /\ loadedFrom' = lockfile
  /\ IF lockfile = Malformed
     THEN /\ Exit(1)
          /\ UNCHANGED <<lock, updatedLock, tasksToProcess>>
     ELSE /\ lock' = readLock(lockfile)
          /\ updatedLock' = InitialUpdatedLock(readLock(lockfile))
          /\ tasksToProcess' = config
          /\ pc' = "loop"
          /\ UNCHANGED exitCode
  /\ UNCHANGED <<args, config, anyFailed, idx, ctx>>
  /\ UNCHANGED <<outcome, runnerCalls, passed, hashed, writes, written, prev, configLoad, history>>
  /\ UNCHANGED diskVars
  /\ UNCHANGED invocations

\* main: readLock, tasksToProcess, and the first line of processTasks.
\* file.json() rejects on malformed JSON; main().catch exits with 1.
ReadLock ==
  /\ UNCHANGED callVars
  /\ pc = "readLock"
  /\ reads' = reads + 1
  /\ loadedFrom' = lockfile
  /\ IF lockfile = Malformed
     THEN /\ Exit(1)
          /\ UNCHANGED <<lock, updatedLock, tasksToProcess>>
     ELSE /\ lock' = readLock(lockfile)
          /\ updatedLock' = InitialUpdatedLock(readLock(lockfile))
          /\ tasksToProcess' = IF args.task # NoTask THEN <<args.task>> ELSE config
          /\ pc' = "loop"
          /\ UNCHANGED exitCode
  /\ UNCHANGED <<args, config, anyFailed, idx, ctx>>
  /\ UNCHANGED <<outcome, runnerCalls, passed, hashed, writes, written, prev, configLoad, history>>
  /\ UNCHANGED diskVars
  /\ UNCHANGED invocations

\* A prepareTask that counts a task without files as failed.
ResolveEmptyIsFailure ==
  /\ UNCHANGED callVars
  /\ pc = "loop"
  /\ idx <= Len(tasksToProcess)
  /\ LET name == tasksToProcess[idx]
         files == resolveFiles(Sources[name], Exclude[name], dir)
     IN IF name \notin SeqToSet(config)
        THEN /\ Exit(1)
             /\ UNCHANGED <<outcome, idx, ctx, anyFailed>>
        ELSE IF Len(files) = 0
        THEN /\ outcome' = [outcome EXCEPT ![name] = "nofiles"]
             /\ idx' = idx + 1
             /\ anyFailed' = TRUE
             /\ UNCHANGED <<pc, ctx, exitCode>>
        ELSE /\ ctx' = [name |-> name, files |-> files]
             /\ pc' = "hash"
             /\ UNCHANGED <<outcome, idx, anyFailed, exitCode>>
  /\ UNCHANGED <<args, config, lock, updatedLock, tasksToProcess>>
  /\ UNCHANGED <<runnerCalls, passed, hashed, reads, writes, written, loadedFrom, prev, configLoad, history>>
  /\ UNCHANGED diskVars
  /\ UNCHANGED invocations

\* prepareTask up to the first hashFile: resolveFiles and the empty check.
\* For a name that config.tasks only inherits, taskConfig.sources is
\* undefined and fast-glob rejects; main().catch exits with 1.
Resolve ==
  /\ UNCHANGED callVars
  /\ pc = "loop"
  /\ idx <= Len(tasksToProcess)
  /\ LET name == tasksToProcess[idx]
         files == resolveFiles(Sources[name], Exclude[name], dir)
     IN IF name \notin SeqToSet(config)
        THEN /\ Exit(1)
             /\ UNCHANGED <<outcome, idx, ctx>>
        ELSE IF Len(files) = 0
        THEN /\ outcome' = [outcome EXCEPT ![name] = "nofiles"]
             /\ idx' = idx + 1
             /\ UNCHANGED <<pc, ctx, exitCode>>
        ELSE /\ ctx' = [name |-> name, files |-> files]
             /\ pc' = "hash"
             /\ UNCHANGED <<outcome, idx, exitCode>>
  /\ UNCHANGED <<args, config, lock, updatedLock, anyFailed, tasksToProcess>>
  /\ UNCHANGED <<runnerCalls, passed, hashed, reads, writes, written, loadedFrom, prev, configLoad, history>>
  /\ UNCHANGED diskVars
  /\ UNCHANGED invocations

\* A dispatch that lost the "no changes" early return of runTask.
TaskActionAlwaysRun(a, diff) ==
  IF a.status THEN "status"
  ELSE IF a.dryRun THEN "dryrun"
  ELSE "running"

\* processTasks and runTask: what is done with a prepared task.
TaskAction(a, diff) ==
  IF a.status THEN "status"
  ELSE IF a.dryRun THEN "dryrun"
  ELSE IF ~(diff.changed \/ a.force) THEN "skipped"
  ELSE "running"

\* A loop that spawns the runner without awaiting it.
AfterSpawnDetached(i) == [pc |-> "loop", idx |-> i + 1]

\* await executeRunner(...): the loop is suspended until the runner exits.
AfterSpawn(i) == [pc |-> "running", idx |-> i]

\* A runTask that hands the removed paths to assemblePrompt as well.
HashAndDispatchListsRemoved ==
  /\ UNCHANGED callVars
  /\ pc = "hash"
  /\ LET name == ctx.name
         fileHashes == [i \in 1..Len(ctx.files) |->
                          <<ctx.files[i], hashFile(dir[ctx.files[i]])>>]
         merkleRoot == computeMerkleRoot(fileHashes)
         diff == diffTask(name, fileHashes, merkleRoot, TaskEntry(lock.tasks, name))
         full == [name |-> name, files |-> ctx.files, fileHashes |-> fileHashes,
                  merkleRoot |-> merkleRoot, diff |-> diff]
         action == TaskAction(args, diff)
     IN IF \E i \in 1..Len(ctx.files) : dir[ctx.files[i]] = 0
        THEN /\ Exit(1)
             /\ UNCHANGED <<ctx, idx, outcome, runnerCalls, passed, hashed>>
        ELSE /\ ctx' = full
             /\ hashed' = [hashed EXCEPT ![name] = fileHashes]
             /\ outcome' = [outcome EXCEPT ![name] = action]
             /\ UNCHANGED exitCode
             /\ IF action = "running"
                THEN /\ runnerCalls' = [runnerCalls EXCEPT ![name] = @ + 1]
                     /\ passed' = [passed EXCEPT ![name] = diff.changed_files \o diff.removed_files]
                     /\ pc' = AfterSpawn(idx).pc
                     /\ idx' = AfterSpawn(idx).idx
                ELSE /\ idx' = idx + 1
                     /\ pc' = "loop"
                     /\ UNCHANGED <<runnerCalls, passed>>
  /\ UNCHANGED <<args, config, lock, updatedLock, anyFailed, tasksToProcess>>
  /\ UNCHANGED <<reads, writes, written, loadedFrom, prev, configLoad, history>>
  /\ UNCHANGED diskVars
  /\ UNCHANGED invocations


\* prepareTask from the hashing loop on, then the dispatch of processTasks
\* up to the call of executeRunner.  hashFile rejects when the file cannot
\* be read; the rejection reaches main().catch, which exits with 1.
HashAndDispatch ==
  /\ UNCHANGED callVars
  /\ pc = "hash"
  /\ LET name == ctx.name
         fileHashes == [i \in 1..Len(ctx.files) |->
                          <<ctx.files[i], hashFile(dir[ctx.files[i]])>>]
         merkleRoot == computeMerkleRoot(fileHashes)
         diff == diffTask(name, fileHashes, merkleRoot, TaskEntry(lock.tasks, name))
         full == [name |-> name, files |-> ctx.files, fileHashes |-> fileHashes,
                  merkleRoot |-> merkleRoot, diff |-> diff]
         action == TaskAction(args, diff)
     IN IF \E i \in 1..Len(ctx.files) : dir[ctx.files[i]] = 0
        THEN /\ Exit(1)
             /\ UNCHANGED <<ctx, idx, outcome, runnerCalls, passed, hashed>>
        ELSE /\ ctx' = full
             /\ hashed' = [hashed EXCEPT ![name] = fileHashes]
             /\ outcome' = [outcome EXCEPT ![name] = action]
             /\ UNCHANGED exitCode
             /\ IF action = "running"
                THEN /\ runnerCalls' = [runnerCalls EXCEPT ![name] = @ + 1]
                     /\ passed' = [passed EXCEPT ![name] = diff.changed_files]
                     /\ pc' = AfterSpawn(idx).pc
                     /\ idx' = AfterSpawn(idx).idx
                ELSE /\ idx' = idx + 1
                     /\ pc' = "loop"
                     /\ UNCHANGED <<runnerCalls, passed>>
  /\ UNCHANGED <<args, config, lock, updatedLock, anyFailed, tasksToProcess>>
  /\ UNCHANGED <<reads, writes, written, loadedFrom, prev, configLoad, history>>
  /\ UNCHANGED diskVars
  /\ UNCHANGED invocations

\* An entry whose root is the root of no files instead of the root of the
\* files it lists.
NewLockEntryEmptyRoot(c, now) ==
  [last_run |-> toISOString(now), sources_hash |-> computeMerkleRoot(<<>>),
   files |-> c.fileHashes]

\* runTask's result on exit code 0.
NewLockEntry(c, now) ==
  [last_run |-> toISOString(now), sources_hash |-> c.merkleRoot, files |-> c.fileHashes]

\* A runTask that returns the new entry whatever the runner's exit code.
RunnerExitRecordsFailure ==
  /\ UNCHANGED callVars
  /\ pc = "running"
  /\ \E code \in RunnerCodes :
       LET name == ctx.name
           lockEntry == NewLockEntry(ctx, clock)
       IN IF code # 0
          THEN /\ outcome' = [outcome EXCEPT ![name] = "failed"]
               /\ anyFailed' = (ctx.diff.changed \/ args.force \/ anyFailed)
               /\ updatedLock' = [updatedLock EXCEPT !.tasks = SetTask(@, name, lockEntry)]
          ELSE /\ outcome' = [outcome EXCEPT ![name] = "ok"]
               /\ updatedLock' = [updatedLock EXCEPT !.tasks = SetTask(@, name, lockEntry)]
               /\ UNCHANGED anyFailed
  /\ idx' = idx + 1
  /\ pc' = "loop"
  /\ UNCHANGED <<args, config, lock, tasksToProcess, ctx, exitCode>>
  /\ UNCHANGED <<runnerCalls, passed, hashed, reads, writes, written, loadedFrom, prev, configLoad, history>>
  /\ UNCHANGED diskVars
  /\ UNCHANGED invocations


\* runTask after executeRunner resolved with exit code `code`, and the
\* bookkeeping of processTasks for its result.
RunnerExit ==
  /\ UNCHANGED callVars
  /\ pc = "running"
  /\ \E code \in RunnerCodes :
       LET name == ctx.name
           lockEntry == NewLockEntry(ctx, clock)
       IN IF code # 0
          THEN /\ outcome' = [outcome EXCEPT ![name] = "failed"]
               /\ anyFailed' = (ctx.diff.changed \/ args.force \/ anyFailed)
               /\ UNCHANGED updatedLock
          ELSE /\ outcome' = [outcome EXCEPT ![name] = "ok"]
               /\ updatedLock' = [updatedLock EXCEPT !.tasks = SetTask(@, name, lockEntry)]
               /\ UNCHANGED anyFailed
  /\ idx' = idx + 1
  /\ pc' = "loop"
  /\ UNCHANGED <<args, config, lock, tasksToProcess, ctx, exitCode>>
  /\ UNCHANGED <<runnerCalls, passed, hashed, reads, writes, written, loadedFrom, prev, configLoad, history>>
  /\ UNCHANGED diskVars
  /\ UNCHANGED invocations

\* Write guards that forget one of the two read-only modes.
ShouldWriteUnlessDryRun(a) == ~a.dryRun
ShouldWriteUnlessStatus(a) == ~a.status

\* main: if (!(args.status || args.dryRun))
ShouldWrite(a) == ~(a.status \/ a.dryRun)

\* main after processTasks returned: writeLock unless --status or --dry-run,
\* then process.exit(anyFailed ? 1 : 0).
Finish ==
  /\ UNCHANGED callVars
  /\ pc = "loop"
  /\ idx > Len(tasksToProcess)
  /\ IF ShouldWrite(args)
     THEN /\ lockfile' = Serialize(updatedLock)
          /\ writes' = writes + 1
          /\ written' = updatedLock
     ELSE UNCHANGED <<lockfile, writes, written>>
  /\ Exit(IF anyFailed THEN 1 ELSE 0)
  /\ UNCHANGED <<args, config, lock, updatedLock, anyFailed, tasksToProcess, idx, ctx>>
  /\ UNCHANGED <<outcome, runnerCalls, passed, hashed, reads, loadedFrom, prev, configLoad, history>>
  /\ UNCHANGED <<dir, clock, edits, touched, editLog, invocations>>

Next ==
  \/ EditFile
  \/ TruncateLock
  \/ Start
  \/ ReadLock
  \/ Resolve
  \/ HashAndDispatch
  \/ RunnerExit
  \/ Finish

Spec == Init /\ [][Next]_vars

TypeOK ==
  /\ dir \in [Paths -> 0..MaxContent]
  /\ pc \in {"idle", "readLock", "loop", "hash", "running", "exited"}
  /\ args \in ArgsSet
  /\ exitCode \in {-1, 0, 1}
  /\ anyFailed \in BOOLEAN

(***************************************************************************)
(* hash.ts and lock.ts called as a library: computeMerkleRoot and diffTask *)
(* are exported pure functions, applied here to every argument of a        *)
(* bounded universe.                                                       *)
(***************************************************************************)
\* The digests hashFile can return.
Digests == {hashFile(c) : c \in 1..MaxContent}

\* A file name that holds a colon and a line feed: "a:sha256:1\nb".
PathExotic == PathA \o <<58>> \o hashFile(1) \o <<10>> \o PathB

MerklePaths == {PathA, PathB, PathExotic}
DiffPaths == {PathA, PathB, PathProto}

\* Record<string, string> values over the paths P, in every key order.
FileSetsOver(P) ==
  UNION {{f \in [1..n -> P \X Digests] :
            \A i, j \in 1..n : i # j => f[i][1] # f[j][1]} : n \in 0..MaxFiles}

\* The sources_hash a lock entry may hold: the root of its own files, the
\* root the caller passes, or the root of no files.
StoredRoots(files, root) == {computeMerkleRoot(files), root, computeMerkleRoot(<<>>)}

LockEntries(root) ==
  UNION {{[last_run |-> toISOString(0), sources_hash |-> h, files |-> f] :
            h \in StoredRoots(f, root)} : f \in FileSetsOver(DiffPaths)}

InitMerkle ==
  /\ ProgramInit
  /\ inA \in FileSetsOver(MerklePaths)
  /\ inB \in FileSetsOver(MerklePaths)
  /\ inRoot = <<>>
  /\ inEntry = NoEntry
  /\ inArg = NoArg
  /\ procs = NoProcs
  /\ configFile = Missing
  /\ accessed = NotAccessed
  /\ result = NoResult

\* computeMerkleRoot(inA) and computeMerkleRoot(inB)
CallMerkle ==
  /\ result = NoResult
  /\ result' = [rootA |-> computeMerkleRoot(inA), rootB |-> computeMerkleRoot(inB)]
  /\ UNCHANGED <<inA, inB, inRoot, inEntry, inArg, procs, configFile, accessed>>
  /\ UNCHANGED diskVars
  /\ UNCHANGED procVars
  /\ UNCHANGED ghostVars
  /\ UNCHANGED invocations

NextMerkle == CallMerkle

SpecMerkle == InitMerkle /\ [][NextMerkle]_vars

InitDiff ==
  /\ ProgramInit
  /\ inA \in FileSetsOver(DiffPaths)
  /\ inB = <<>>
  /\ inRoot \in {computeMerkleRoot(inA), computeMerkleRoot(<<>>)}
  /\ inEntry \in {NoEntry} \cup LockEntries(inRoot)
  /\ inArg = NoArg
  /\ procs = NoProcs
  /\ configFile = Missing
  /\ accessed = NotAccessed
  /\ result = NoResult

\* diffTask(taskName, inA, inRoot, inEntry)
CallDiff ==
  /\ result = NoResult
  /\ result' = diffTask("t1", inA, inRoot, inEntry)
  /\ UNCHANGED <<inA, inB, inRoot, inEntry, inArg, procs, configFile, accessed>>
  /\ UNCHANGED diskVars
  /\ UNCHANGED procVars
  /\ UNCHANGED ghostVars
  /\ UNCHANGED invocations

NextDiff == CallDiff

SpecDiff == InitDiff /\ [][NextDiff]_vars

\* File names that need escaping in JSON: a" and \n (backslash, n).
PathQuote == <<97, 34>>
PathEscape == <<92, 110>>
LockPaths == {PathQuote, PathEscape, PathExotic}

EntriesOver(fileSets) ==
  {[last_run |-> toISOString(0), sources_hash |-> computeMerkleRoot(f), files |-> f] :
     f \in fileSets}

\* Task maps of up to two tasks in either key order; in a map of two the
\* second entry holds at most one file.
TaskMaps ==
  LET E == EntriesOver(FileSetsOver(LockPaths))
      E1 == {e \in E : Len(e.files) <= 1}
  IN {<<>>}
     \cup {<<<<t, e>>>> : t \in TaskNames, e \in E}
     \cup {<<<<t[1], e>>, <<t[2], f>>>> :
             t \in {<<"t1", "t2">>, <<"t2", "t1">>}, e \in E, f \in E1}

Locks == {[version |-> 1, tasks |-> m] : m \in TaskMaps}

InitLock ==
  /\ ProgramInit
  /\ inA = <<>>
  /\ inB = <<>>
  /\ inRoot = <<>>
  /\ inEntry = NoEntry
  /\ inArg \in {[lock |-> L] : L \in Locks}
  /\ procs = NoProcs
  /\ configFile = Missing
  /\ accessed = NotAccessed
  /\ result = NoResult

\* writeLock(lockPath, inArg.lock)
CallWriteLock ==
  /\ result = NoResult
  /\ lockfile = Missing
  /\ lockfile' = Serialize(inArg.lock)
  /\ UNCHANGED callVars
  /\ UNCHANGED <<dir, clock, edits, touched, editLog>>
  /\ UNCHANGED procVars
  /\ UNCHANGED ghostVars
  /\ UNCHANGED invocations

\* readLock(lockPath)
CallReadLock ==
  /\ result = NoResult
  /\ result' = [lock |-> readLock(lockfile)]
  /\ UNCHANGED <<inA, inB, inRoot, inEntry, inArg, procs, configFile, accessed>>
  /\ UNCHANGED diskVars
  /\ UNCHANGED procVars
  /\ UNCHANGED ghostVars
  /\ UNCHANGED invocations

NextLock == CallWriteLock \/ CallReadLock

SpecLock == InitLock /\ [][NextLock]_vars

\* Glob patterns, each the set of paths it matches.
Patterns == {{PathA}, {PathB}, {PathA, PathB}, {PathB, PathC}, {}}

PatternLists(min) == UNION {[1..n -> Patterns] : n \in min..MaxPatterns}

Reverse(seq) == [i \in 1..Len(seq) |-> seq[Len(seq) + 1 - i]]

InitResolve ==
  /\ ProgramInit
  /\ inA = <<>>
  /\ inB = <<>>
  /\ inRoot = <<>>
  /\ inEntry = NoEntry
  /\ inArg \in [sources : PatternLists(1), exclude : PatternLists(0),
                 dir : [Paths -> {0, 1}]]
  /\ procs = NoProcs
  /\ configFile = Missing
  /\ accessed = NotAccessed
  /\ result = NoResult

\* resolveFiles(sources, exclude), and the same call with both pattern
\* lists in the opposite order.
CallResolve ==
  /\ result = NoResult
  /\ result' = [files |-> resolveFiles(inArg.sources, inArg.exclude, inArg.dir),
                 permuted |-> resolveFiles(Reverse(inArg.sources),
                                           Reverse(inArg.exclude), inArg.dir)]
  /\ UNCHANGED <<inA, inB, inRoot, inEntry, inArg, procs, configFile, accessed>>
  /\ UNCHANGED diskVars
  /\ UNCHANGED procVars
  /\ UNCHANGED ghostVars
  /\ UNCHANGED invocations

NextResolve == CallResolve

SpecResolve == InitResolve /\ [][NextResolve]_vars

(***************************************************************************)
(* The runner module: assemblePrompt                                       *)
(***************************************************************************)
PromptOpen == <<60, 112, 114, 111, 109, 112, 116, 62>>
PromptClose == <<60, 47, 112, 114, 111, 109, 112, 116, 62>>
ChangedFilesOpen == <<60, 99, 104, 97, 110, 103, 101, 100, 45, 102, 105, 108, 101, 115, 62>>
ChangedFilesClose == <<60, 47, 99, 104, 97, 110, 103, 101, 100, 45, 102, 105, 108, 101, 115, 62>>
Separator == <<44, 32>>

\* Array.prototype.join
RECURSIVE Join(_, _)
Join(strs, sep) ==
  IF strs = <<>> THEN <<>>
  ELSE IF Len(strs) = 1 THEN strs[1]
  ELSE strs[1] \o sep \o Join(Tail(strs), sep)

assemblePrompt(userPrompt, changedFiles) ==
  PromptOpen \o userPrompt \o PromptClose \o <<10>>
    \o ChangedFilesOpen \o Join(changedFiles, Separator) \o ChangedFilesClose

\* A file name that holds a comma and a space: "a, b".
PathComma == PathA \o Separator \o PathB

\* Prompt texts: "P" and "Q".
Prompts == {<<80>>, <<81>>}

PromptInputs ==
  [prompt : Prompts,
   files : UNION {[1..n -> {PathA, PathB, PathComma}] : n \in 0..MaxFiles}]

InitPrompt ==
  /\ ProgramInit
  /\ inA = <<>>
  /\ inB = <<>>
  /\ inRoot = <<>>
  /\ inEntry = NoEntry
  /\ inArg \in [first : PromptInputs, second : PromptInputs]
  /\ procs = NoProcs
  /\ configFile = Missing
  /\ accessed = NotAccessed
  /\ result = NoResult

\* assemblePrompt applied to two inputs.
CallAssemblePrompt ==
  /\ result = NoResult
  /\ result' = [first |-> assemblePrompt(inArg.first.prompt, inArg.first.files),
                 second |-> assemblePrompt(inArg.second.prompt, inArg.second.files)]
  /\ UNCHANGED <<inA, inB, inRoot, inEntry, inArg, procs, configFile, accessed>>
  /\ UNCHANGED diskVars
  /\ UNCHANGED procVars
  /\ UNCHANGED ghostVars
  /\ UNCHANGED invocations

NextPrompt == CallAssemblePrompt

SpecPrompt == InitPrompt /\ [][NextPrompt]_vars

(***************************************************************************)
(* Two invocations of the tool at once, in the same directory: `derive`    *)
(* or `derive <task>` without flags, with the config of t1 and t2.  Each   *)
(* runs main() with locals of its own; the lockfile is the one on disk.    *)
(***************************************************************************)
Procs == {1, 2}

NotStarted ==
  [pc |-> "idle", args |-> PlainArgs, lock |-> EmptyLock, updatedLock |-> EmptyLock,
   anyFailed |-> FALSE, tasksToProcess |-> <<>>, idx |-> 1, ctx |-> NoCtx,
   exitCode |-> -1, loadedFrom |-> Missing, ran |-> {}, written |-> NoWrite,
   writeSeq |-> 0]

RaceConfig == <<"t1", "t2">>

InitRace ==
  /\ ProgramInit
  /\ inA = <<>>
  /\ inB = <<>>
  /\ inRoot = <<>>
  /\ inEntry = NoEntry
  /\ inArg = NoArg
  /\ procs = [p \in Procs |-> NotStarted]
  /\ configFile = Missing
  /\ accessed = NotAccessed
  /\ result = NoResult

RaceFrame ==
  /\ UNCHANGED <<inA, inB, inRoot, inEntry, inArg, configFile, accessed, result>>
  /\ UNCHANGED <<dir, clock, edits, touched, editLog>>
  /\ UNCHANGED procVars
  /\ UNCHANGED ghostVars
  /\ UNCHANGED invocations

\* main up to the unknown-task check.
RaceStart(p) ==
  /\ procs[p].pc = "idle"
  /\ validateConfig(Raw(RaceConfig, {})).success
  /\ \E task \in TaskNames \cup {NoTask} :
       procs' = [procs EXCEPT ![p].args = [PlainArgs EXCEPT !.task = task],
                              ![p].pc = "readLock"]
  /\ UNCHANGED lockfile
  /\ RaceFrame

\* main: readLock, tasksToProcess, and the first line of processTasks.
RaceReadLock(p) ==
  /\ procs[p].pc = "readLock"
  /\ procs' = [procs EXCEPT
       ![p].loadedFrom = lockfile,
       ![p].lock = readLock(lockfile),
       ![p].updatedLock = InitialUpdatedLock(readLock(lockfile)),
       ![p].tasksToProcess = IF procs[p].args.task # NoTask
                             THEN <<procs[p].args.task>> ELSE RaceConfig,
       ![p].pc = "loop"]
  /\ UNCHANGED lockfile
  /\ RaceFrame

\* prepareTask up to the first hashFile.
RaceResolve(p) ==
  /\ procs[p].pc = "loop"
  /\ procs[p].idx <= Len(procs[p].tasksToProcess)
  /\ LET name == procs[p].tasksToProcess[procs[p].idx]
         files == resolveFiles(Sources[name], Exclude[name], dir)
     IN procs' = IF Len(files) = 0
                 THEN [procs EXCEPT ![p].idx = @ + 1]
                 ELSE [procs EXCEPT ![p].ctx = [name |-> name, files |-> files],
                                    ![p].pc = "hash"]
  /\ UNCHANGED lockfile
  /\ RaceFrame

\* prepareTask from the hashing loop on, and the dispatch of processTasks.
RaceHashAndDispatch(p) ==
  /\ procs[p].pc = "hash"
  /\ LET c == procs[p].ctx
         fileHashes == [i \in 1..Len(c.files) |-> <<c.files[i], hashFile(dir[c.files[i]])>>]
         merkleRoot == computeMerkleRoot(fileHashes)
         diff == diffTask(c.name, fileHashes, merkleRoot, TaskEntry(procs[p].lock.tasks, c.name))
         full == [name |-> c.name, files |-> c.files, fileHashes |-> fileHashes,
                  merkleRoot |-> merkleRoot, diff |-> diff]
     IN procs' = IF TaskAction(procs[p].args, diff) = "running"
                 THEN [procs EXCEPT ![p].ctx = full,
                                    ![p].pc = AfterSpawn(procs[p].idx).pc,
                                    ![p].idx = AfterSpawn(procs[p].idx).idx]
                 ELSE [procs EXCEPT ![p].ctx = full, ![p].pc = "loop", ![p].idx = @ + 1]
  /\ UNCHANGED lockfile
  /\ RaceFrame

\* runTask after executeRunner resolved, and the bookkeeping of processTasks.
RaceRunnerExit(p) ==
  /\ procs[p].pc = "running"
  /\ \E code \in RunnerCodes :
       LET c == procs[p].ctx
       IN procs' = IF code # 0
                   THEN [procs EXCEPT ![p].anyFailed =
                                        (c.diff.changed \/ procs[p].args.force \/ @),
                                      ![p].pc = "loop", ![p].idx = @ + 1]
                   ELSE [procs EXCEPT
                          ![p].updatedLock.tasks = SetTask(@, c.name, NewLockEntry(c, clock)),
                          ![p].ran = @ \cup {c.name},
                          ![p].pc = "loop", ![p].idx = @ + 1]
  /\ UNCHANGED lockfile
  /\ RaceFrame

\* How many invocations have written the lockfile.
Writers == Cardinality({q \in Procs : procs[q].writeSeq > 0})

\* A main that reads the lockfile again and writes it with its own entries
\* laid over it.
RaceFinishMerging(p) ==
  /\ procs[p].pc = "loop"
  /\ procs[p].idx > Len(procs[p].tasksToProcess)
  /\ LET onDisk == readLock(lockfile).tasks
         own == SelectSeq(procs[p].updatedLock.tasks, LAMBDA kv : kv[1] \in procs[p].ran)
         kept == SelectSeq(onDisk, LAMBDA kv : kv[1] \notin procs[p].ran)
         merged == [version |-> 1, tasks |-> kept \o own]
     IN /\ lockfile' = Serialize(merged)
        /\ procs' = [procs EXCEPT ![p].written = merged,
                                   ![p].writeSeq = Writers + 1,
                                   ![p].pc = "exited",
                                   ![p].exitCode = IF procs[p].anyFailed THEN 1 ELSE 0]
  /\ RaceFrame

\* main after processTasks returned: writeLock, then process.exit.
RaceFinish(p) ==
  /\ procs[p].pc = "loop"
  /\ procs[p].idx > Len(procs[p].tasksToProcess)
  /\ IF ShouldWrite(procs[p].args)
     THEN /\ lockfile' = Serialize(procs[p].updatedLock)
          /\ procs' = [procs EXCEPT ![p].written = procs[p].updatedLock,
                                    ![p].writeSeq = Writers + 1,
                                    ![p].pc = "exited",
                                    ![p].exitCode = IF procs[p].anyFailed THEN 1 ELSE 0]
     ELSE /\ UNCHANGED lockfile
          /\ procs' = [procs EXCEPT ![p].pc = "exited",
                                    ![p].exitCode = IF procs[p].anyFailed THEN 1 ELSE 0]
  /\ RaceFrame

NextRace ==
  \E p \in Procs :
    \/ RaceStart(p)
    \/ RaceReadLock(p)
    \/ RaceResolve(p)
    \/ RaceHashAndDispatch(p)
    \/ RaceRunnerExit(p)
    \/ RaceFinish(p)

SpecRace == InitRace /\ [][NextRace]_vars

(***************************************************************************)
(* index.ts: derive --help, --version and --init, which main handles       *)
(* before it looks for a config.  The text of derive.jsonc is a number:    *)
(* 0 is the text of STARTER_CONFIG, any other number some other text.      *)
(***************************************************************************)
Text(c) == [kind |-> "text", text |-> c]

STARTER_CONFIG == Text(0)

\* What derive.jsonc may be before the tool runs, or be made by its owner.
ConfigFiles == {Missing} \cup {Text(c) : c \in 0..MaxContent}

\* Command lines with at least one of --help, --version, --init.
EarlyArgs ==
  {a \in [help : BOOLEAN, version : BOOLEAN, init : BOOLEAN] :
     a.help \/ a.version \/ a.init}

InitInit ==
  /\ ProgramInit
  /\ inA = <<>>
  /\ inB = <<>>
  /\ inRoot = <<>>
  /\ inEntry = NoEntry
  /\ inArg = NoArg
  /\ procs = NoProcs
  /\ configFile \in ConfigFiles
  /\ accessed = NotAccessed
  /\ result = NoResult

InitFrame ==
  /\ UNCHANGED <<inA, inB, inRoot, inEntry, inArg, procs, result>>
  /\ UNCHANGED <<dir, lockfile>>
  /\ UNCHANGED <<config, lock, updatedLock, anyFailed, tasksToProcess, idx, ctx>>
  /\ UNCHANGED ghostVars

\* derive.jsonc is created, rewritten or deleted between two invocations.
EditConfig ==
  /\ pc \in {"idle", "exited"}
  /\ edits < MaxEdits
  /\ \E f \in ConfigFiles \ {configFile} :
       /\ configFile' = f
       /\ editLog' = Append(editLog, [path |-> "derive.jsonc", from |-> configFile,
                                      to |-> f, between |-> TRUE])
  /\ edits' = edits + 1
  /\ touched' = TRUE
  /\ UNCHANGED <<clock, invocations, pc, args, exitCode, accessed>>
  /\ InitFrame

\* main: parseCliArgs and the checks of args.help, args.version, args.init.
StartEarly ==
  /\ pc \in {"idle", "exited"}
  /\ invocations < MaxInvocations
  /\ invocations' = invocations + 1
  /\ \E a \in EarlyArgs :
       /\ args' = a
       /\ IF a.help \/ a.version
          THEN Exit(0)
          ELSE pc' = "handleInit" /\ exitCode' = -1
  /\ accessed' = NotAccessed
  /\ touched' = FALSE
  /\ editLog' = <<>>
  /\ clock' = clock + 1
  /\ UNCHANGED <<configFile, edits>>
  /\ InitFrame

\* A handleInit that goes on to writeFile whatever access() found.
HandleInitAccessIgnored ==
  /\ pc = "handleInit"
  /\ accessed' = configFile
  /\ pc' = "writeFile"
  /\ UNCHANGED <<configFile, args, exitCode>>
  /\ UNCHANGED <<clock, edits, touched, editLog, invocations>>
  /\ InitFrame

\* handleInit: await access(configPath).  It resolves when the file exists,
\* and process.exit(1) ends the process there; it rejects when the file is
\* missing, and the empty catch lets handleInit go on.
HandleInitAccess ==
  /\ pc = "handleInit"
  /\ accessed' = configFile
  /\ IF configFile # Missing
     THEN Exit(1)
     ELSE pc' = "writeFile" /\ UNCHANGED exitCode
  /\ UNCHANGED <<configFile, args>>
  /\ UNCHANGED <<clock, edits, touched, editLog, invocations>>
  /\ InitFrame

\* handleInit: await writeFile(configPath, STARTER_CONFIG), then main's
\* process.exit(0).
HandleInitWrite ==
  /\ pc = "writeFile"
  /\ configFile' = STARTER_CONFIG
  /\ Exit(0)
  /\ UNCHANGED <<args, accessed>>
  /\ UNCHANGED <<clock, edits, touched, editLog, invocations>>
  /\ InitFrame

NextInit ==
  \/ EditConfig
  \/ StartEarly
  \/ HandleInitAccess
  \/ HandleInitWrite

SpecInit == InitInit /\ [][NextInit]_vars

(***************************************************************************)
(* The tool in a directory where it may have run before: the lockfile is   *)
(* missing, or it is the one a first `derive` wrote after the runners of   *)
(* both tasks exited with 0.                                               *)
(***************************************************************************)
FirstDir == [p \in Paths |-> 1]

\* The entry runTask builds for t in that first invocation.
FirstEntry(t) ==
  LET files == resolveFiles(Sources[t], Exclude[t], FirstDir)
      fileHashes == [i \in 1..Len(files) |-> <<files[i], hashFile(FirstDir[files[i]])>>]
  IN NewLockEntry([merkleRoot |-> computeMerkleRoot(fileHashes),
                   fileHashes |-> fileHashes], 0)

FirstLock ==
  [version |-> 1, tasks |-> <<<<"t1", FirstEntry("t1")>>, <<"t2", FirstEntry("t2")>>>>]

InitStale ==
  /\ dir = [p \in Paths |-> 1]
  /\ lockfile \in {Missing, Serialize(FirstLock)}
  /\ clock = 0
  /\ edits = 0
  /\ invocations = 0
  /\ pc = "idle"
  /\ args = [status |-> FALSE, dryRun |-> FALSE, force |-> FALSE, task |-> NoTask]
  /\ config = <<>>
  /\ lock = EmptyLock
  /\ updatedLock = EmptyLock
  /\ anyFailed = FALSE
  /\ tasksToProcess = <<>>
  /\ idx = 1
  /\ ctx = NoCtx
  /\ exitCode = -1
  /\ outcome = [t \in TaskNames |-> "none"]
  /\ runnerCalls = [t \in TaskNames |-> 0]
  /\ passed = [t \in TaskNames |-> <<>>]
  /\ hashed = [t \in TaskNames |-> NoHashes]
  /\ reads = 0
  /\ writes = 0
  /\ written = NoWrite
  /\ loadedFrom = Missing
  /\ touched = FALSE
  /\ editLog = <<>>
  /\ prev = NoPrev
  /\ configLoad = NoLoad
  /\ history = NoRuns
  /\ NoCall

SpecStale == InitStale /\ [][Next]_vars

(***************************************************************************)
(* Vocabulary of the properties                                            *)
(***************************************************************************)
Exited == pc = "exited"
Selected == SeqToSet(tasksToProcess) \cap TaskNames
NoFlags == ~args.status /\ ~args.dryRun /\ ~args.force
LoadedEntry(t) == TaskEntry(lock.tasks, t)
WrittenEntry(t) == TaskEntry(written.tasks, t)
\* The entry runTask builds from what prepareTask hashed for t.
IsNewEntry(e, t) ==
  /\ e # NoEntry
  /\ e.files = hashed[t]
  /\ e.sources_hash = computeMerkleRoot(hashed[t])
\* main() was cut short by a rejected promise (readLock or hashFile).
Aborted ==
  /\ Exited
  /\ reads = 1
  /\ loadedFrom = Malformed \/ idx <= Len(tasksToProcess)
\* t was resolved to a non-empty file list of which a file still exists, or
\* matches a file of a directory nobody touched during the invocation.
MatchesFiles(t) ==
  \/ outcome[t] \notin {"none", "nofiles"}
  \/ ctx # NoCtx /\ ctx.name = t /\ \E i \in 1..Len(ctx.files) : dir[ctx.files[i]] # 0
  \/ ~touched /\ Len(resolveFiles(Sources[t], Exclude[t], dir)) > 0

(***************************************************************************)
(* C1: in an invocation without --status and --dry-run, if the runner of   *)
(* task T exits non-zero, then the lockfile written at the end holds for T *)
(* the entry T had when the lock was loaded, every selected task has been  *)
(* processed, and every task whose runner exited 0 has its new entry       *)
(* written.                                                                *)
(***************************************************************************)
C1_FailureIsolated ==
  (Exited /\ ShouldWrite(args)) =>
    \A T \in TaskNames : outcome[T] = "failed" =>
      /\ written # NoWrite
      /\ WrittenEntry(T) = LoadedEntry(T)
      /\ \A u \in Selected : outcome[u] # "none"
      /\ \A u \in TaskNames : outcome[u] = "ok" => IsNewEntry(WrittenEntry(u), u)

(***************************************************************************)
(* C2: after an invocation without --status and --dry-run in which the     *)
(* runner of T exited 0, the lockfile entry of T holds the file map hashed *)
(* for T and its Merkle root; with no prior entry the runner was invoked   *)
(* exactly once, with every resolved file listed as changed.               *)
(***************************************************************************)
C2_SuccessRecorded ==
  (Exited /\ ShouldWrite(args)) =>
    \A T \in TaskNames : outcome[T] = "ok" =>
      /\ written # NoWrite
      /\ IsNewEntry(WrittenEntry(T), T)
      /\ LoadedEntry(T) = NoEntry =>
           runnerCalls[T] = 1 /\ passed[T] = Keys(hashed[T])

(***************************************************************************)
(* C3 as stated: the same command run twice without flags, the disk        *)
(* untouched from the start of the first run to the end of the second:     *)
(* the second run finds no selected task changed, invokes no runner, and   *)
(* leaves the lockfile as the first run left it.                           *)
(***************************************************************************)
SecondRun ==
  /\ Exited
  /\ prev # NoPrev
  /\ NoFlags
  /\ args.task \in SeqToSet(config) \cup {NoTask}
  /\ ~prev.touched
  /\ ~touched
SecondRunIdle ==
  /\ \A t \in Selected : outcome[t] \in {"skipped", "nofiles"}
  /\ \A t \in TaskNames : runnerCalls[t] = 0
  /\ written # NoWrite
  /\ Serialize(written) = loadedFrom
  /\ lockfile = loadedFrom

C3_IdempotentAsStated == SecondRun => SecondRunIdle

(***************************************************************************)
(* C3, amended: the same holds provided the first run exited with code 0,  *)
(* that is, provided every runner the first run invoked exited 0.          *)
(***************************************************************************)
C3_Idempotent == (SecondRun /\ prev.exitCode = 0) => SecondRunIdle

C3_Witness ==
  /\ SecondRun
  /\ prev.exitCode = 0
  /\ \E t \in Selected : outcome[t] = "skipped" /\ LoadedEntry(t) # NoEntry

(***************************************************************************)
(* C4: the lock an invocation writes is the loaded task map overlaid with  *)
(* new entries for exactly the tasks whose runner exited 0; every other    *)
(* entry, last_run included, is carried over and none is dropped.          *)
(***************************************************************************)
C4_CarryForward ==
  written # NoWrite =>
    /\ \A t \in TaskNames :
         IF outcome[t] = "ok"
         THEN IsNewEntry(WrittenEntry(t), t)
         ELSE WrittenEntry(t) = LoadedEntry(t)
    /\ SeqToSet(Keys(lock.tasks)) \subseteq SeqToSet(Keys(written.tasks))
    /\ lockfile # Malformed => Parse(lockfile) = written

C4_Witness ==
  /\ written # NoWrite
  /\ \E t, u \in TaskNames :
       /\ outcome[t] = "ok"
       /\ u \notin SeqToSet(config)
       /\ LoadedEntry(u) # NoEntry
       /\ WrittenEntry(u) = LoadedEntry(u)

(***************************************************************************)
(* C5: with --status, whatever --force, --dry-run and the diff, no runner  *)
(* is invoked and the tool neither creates nor modifies the lockfile.      *)
(***************************************************************************)
C5_StatusReadOnly ==
  args.status =>
    /\ \A t \in TaskNames : runnerCalls[t] = 0 /\ outcome[t] \notin {"running", "ok", "failed"}
    /\ writes = 0
    /\ (reads = 1 /\ ~touched) => lockfile = loadedFrom

C5_Witness ==
  /\ Exited
  /\ args.status /\ args.force
  /\ ~touched
  /\ \E t \in Selected : outcome[t] = "status" /\ ctx.name = t /\ ctx.diff.changed

(***************************************************************************)
(* C6: with --dry-run, whatever --force and the diff, no runner is invoked *)
(* and the tool neither creates nor modifies the lockfile.                 *)
(***************************************************************************)
C6_DryRunReadOnly ==
  args.dryRun =>
    /\ \A t \in TaskNames : runnerCalls[t] = 0 /\ outcome[t] \notin {"running", "ok", "failed"}
    /\ writes = 0
    /\ (reads = 1 /\ ~touched) => lockfile = loadedFrom

C6_Witness ==
  /\ Exited
  /\ args.dryRun /\ args.force /\ ~args.status
  /\ ~touched
  /\ \E t \in Selected : outcome[t] = "dryrun" /\ ctx.name = t /\ ctx.diff.changed

(***************************************************************************)
(* C7: with --force and neither --status nor --dry-run, every selected     *)
(* task that matches a file has its runner invoked, also when its stored   *)
(* root equals the current root, and on exit code 0 its entry is           *)
(* rewritten.                                                              *)
(***************************************************************************)
C7_ForceRuns ==
  (Exited /\ args.force /\ ShouldWrite(args)) =>
    \A t \in Selected : MatchesFiles(t) =>
      /\ runnerCalls[t] = 1
      /\ outcome[t] = "ok" => written # NoWrite /\ IsNewEntry(WrittenEntry(t), t)

(***************************************************************************)
(* C8: once the task selection is valid, the exit code is 1 if and only if *)
(* the runner of some selected task was invoked and exited non-zero, and 0 *)
(* otherwise.                                                              *)
(***************************************************************************)
C8_ExitCode ==
  (Exited /\ reads = 1) =>
    /\ exitCode \in {0, 1}
    /\ exitCode = 1 <=> \E t \in Selected : outcome[t] = "failed"

(***************************************************************************)
(* C9: within an invocation the runner of a task is invoked at most once,  *)
(* and exactly once for each selected task with a non-empty file set that  *)
(* is changed or forced, when neither --status nor --dry-run is given.     *)
(***************************************************************************)
Eligible(t) ==
  /\ t \in Selected
  /\ MatchesFiles(t)
  /\ \/ args.force
     \/ LoadedEntry(t) = NoEntry
     \/ /\ hashed[t] # NoHashes
        /\ diffTask(t, hashed[t], computeMerkleRoot(hashed[t]), LoadedEntry(t)).changed

C9_OncePerEligible ==
  /\ \A t \in TaskNames : runnerCalls[t] <= 1
  /\ (Exited /\ ShouldWrite(args)) =>
       \A t \in TaskNames : Eligible(t) => runnerCalls[t] = 1

(***************************************************************************)
(* C10: tasks are processed one after another in config order: at most one *)
(* runner is in progress, and the next task is resolved only after the     *)
(* runner of the previous one has exited.                                  *)
(***************************************************************************)
InProgress == {t \in TaskNames : outcome[t] = "running"}

ValidSelection == args.task \in SeqToSet(config) \cup {NoTask}

C11_ReadOnceWriteOnce ==
  /\ reads <= 1
  /\ writes <= 1
  /\ (pc \in {"loop", "hash", "running"} \/ ctx # NoCtx
        \/ \E t \in TaskNames : outcome[t] # "none") => reads = 1
  /\ writes = 1 => Exited /\ idx > Len(tasksToProcess)
  /\ (Exited /\ ValidSelection) =>
       /\ reads = 1
       /\ writes = IF ShouldWrite(args) THEN 1 ELSE 0

(***************************************************************************)
(* C12: when a resolved file cannot be read at hashing time, the file is   *)
(* skipped and the task goes on with the remaining files; the invocation   *)
(* is not aborted.                                                         *)
(***************************************************************************)
Readable(files) == SelectSeq(files, LAMBDA f : dir[f] # 0)

C12_SkipUnreadable ==
  [][(pc = "hash" /\ pc' # "hash" /\ \E i \in 1..Len(ctx.files) : dir[ctx.files[i]] = 0)
       => /\ pc' # "exited"
          /\ Keys(hashed'[ctx.name]) = Readable(ctx.files)]_vars

(***************************************************************************)
(* C13: a lockfile that is missing or malformed is read as the empty lock  *)
(* and the invocation goes on to process its tasks.                        *)
(***************************************************************************)
C13_MalformedIsEmpty ==
  [][(pc = "readLock" /\ lockfile \in {Missing, Malformed})
       => pc' = "loop" /\ lock' = EmptyLock]_vars

(***************************************************************************)
(* C14: once the lock is loaded, every selected task is processed whatever *)
(* happens to the others, and every task whose runner exited 0 has its new *)
(* entry in the lockfile written at the end.                               *)
(***************************************************************************)
C14_LocalErrorsIsolated ==
  (Exited /\ reads = 1 /\ loadedFrom # Malformed) =>
    /\ \A u \in Selected : outcome[u] # "none"
    /\ \A u \in TaskNames :
         outcome[u] = "ok" => written # NoWrite /\ IsNewEntry(WrittenEntry(u), u)

(***************************************************************************)
(* C15: computeMerkleRoot is order-independent: two file sets holding the  *)
(* same (path, digest) pairs have the same root, whatever their key order. *)
(***************************************************************************)
Pairs(fileHashes) == SeqToSet(fileHashes)

C15_OrderIndependent ==
  (result # NoResult /\ Pairs(inA) = Pairs(inB)) => result.rootA = result.rootB

C15_Witness ==
  /\ result # NoResult
  /\ Len(inA) = 2
  /\ inA # inB
  /\ Pairs(inA) = Pairs(inB)
  /\ result.rootA = result.rootB

(***************************************************************************)
(* C16: computeMerkleRoot is sensitive to every difference: two file sets  *)
(* that differ in a digest or in a path have different roots, whatever the *)
(* path strings.                                                           *)
(***************************************************************************)
C16_Sensitive ==
  (result # NoResult /\ Pairs(inA) # Pairs(inB)) => result.rootA # result.rootB

(***************************************************************************)
(* C17: diffTask without a prior entry returns changed = true, all current *)
(* paths as changed_files and no removed_files, whatever the file set and  *)
(* the root.                                                               *)
(***************************************************************************)
C17_FirstRun ==
  (result # NoResult /\ inEntry = NoEntry) =>
    /\ result.changed = TRUE
    /\ result.changed_files = Keys(inA)
    /\ result.removed_files = <<>>

C17_Witness ==
  /\ result # NoResult
  /\ inEntry = NoEntry
  /\ Len(inA) = 2
  /\ inRoot # computeMerkleRoot(inA)
  /\ result.changed
  /\ result.changed_files = Keys(inA)

(***************************************************************************)
(* C18: diffTask fast path: when the prior entry's sources_hash equals the *)
(* current root, the result is changed = false with both lists empty,      *)
(* whatever the two file maps hold.                                        *)
(***************************************************************************)
C18_FastPath ==
  (result # NoResult /\ inEntry # NoEntry /\ inEntry.sources_hash = inRoot) =>
    /\ result.changed = FALSE
    /\ result.changed_files = <<>>
    /\ result.removed_files = <<>>

C18_Witness ==
  /\ result # NoResult
  /\ inEntry # NoEntry
  /\ inEntry.sources_hash = inRoot
  /\ Pairs(inEntry.files) # Pairs(inA)
  /\ ~result.changed

(***************************************************************************)
(* C19: diffTask slow path: when the roots differ, changed_files is the    *)
(* set of current paths whose digest is absent from or different in the    *)
(* prior files, removed_files is the set of prior paths absent from the    *)
(* current set, and the two lists are disjoint.                            *)
(***************************************************************************)
SlowPath == result # NoResult /\ inEntry # NoEntry /\ inEntry.sources_hash # inRoot

C19_SlowPath ==
  SlowPath =>
    /\ SeqToSet(result.changed_files) =
         {p \in SeqToSet(Keys(inA)) :
            ~Has(inEntry.files, p) \/ Get(inEntry.files, p) # Get(inA, p)}
    /\ SeqToSet(result.removed_files) =
         {p \in SeqToSet(Keys(inEntry.files)) : ~Has(inA, p)}
    /\ SeqToSet(result.changed_files) \cap SeqToSet(result.removed_files) = {}

(***************************************************************************)
(* C20: when the roots differ and the per-file walk finds no changed and   *)
(* no removed file, diffTask falls back to changed = true.                 *)
(***************************************************************************)
C20_ConservativeFallback ==
  (SlowPath /\ result.changed_files = <<>> /\ result.removed_files = <<>>) =>
    result.changed = TRUE

(***************************************************************************)
(* C21: a command that exited 0 is repeated without flags after exactly    *)
(* one change to the disk, a new content for file p of task T: the diff of *)
(* T lists p alone as changed and nothing as removed, the runner of T is   *)
(* invoked with that list, the entry of T is rewritten when the runner     *)
(* exits 0, and the entry of every other task is written as loaded.        *)
(***************************************************************************)
\* p is a file the patterns of T match.
Matched(T, p) == p \in UnionAll(Sources[T]) \ UnionAll(Exclude[T])

EditedAfterSuccess(T, p) ==
  /\ prev # NoPrev
  /\ prev.exitCode = 0
  /\ NoFlags
  /\ ~touched
  /\ T \in Selected
  /\ Matched(T, p)
  /\ Len(prev.edits) = 1
  /\ prev.edits[1].between
  /\ prev.edits[1].path = p
  /\ prev.edits[1].from # 0
  /\ prev.edits[1].to # 0

Prepared(T) == ctx # NoCtx /\ ctx.name = T /\ pc # "hash"

Renamed(old, new) ==
  /\ inEntry # NoEntry
  /\ inEntry.sources_hash = computeMerkleRoot(inEntry.files)
  /\ inRoot = computeMerkleRoot(inA)
  /\ Has(inEntry.files, old) /\ ~Has(inA, old)
  /\ Has(inA, new) /\ ~Has(inEntry.files, new)
  /\ Get(inA, new) = Get(inEntry.files, old)
  /\ Pairs(inA) \ {<<new, Get(inA, new)>>}
       = Pairs(inEntry.files) \ {<<old, Get(inEntry.files, old)>>}

C22_Rename ==
  \A old, new \in DiffPaths :
    (result # NoResult /\ Renamed(old, new)) =>
      /\ inRoot # inEntry.sources_hash
      /\ old \in SeqToSet(result.removed_files)
      /\ new \in SeqToSet(result.changed_files)

(***************************************************************************)
(* C23: lock round trip: for every lock L of version 1, readLock after     *)
(* writeLock(L) on the same path returns a structure equal to L.           *)
(***************************************************************************)
C23_RoundTrip ==
  (result # NoResult /\ lockfile # Missing) => result.lock = inArg.lock

C23_Witness ==
  /\ result # NoResult
  /\ lockfile # Missing
  /\ Len(inArg.lock.tasks) = 2
  /\ Has(inArg.lock.tasks[1][2].files, PathEscape)
  /\ Has(inArg.lock.tasks[1][2].files, PathExotic)
  /\ result.lock = inArg.lock

(***************************************************************************)
(* C24: a task whose patterns resolve to no file is reported as "no files  *)
(* matched" and nothing else happens to it, whatever the flags and also    *)
(* when its lock entry lists files that are all gone: no hash and no diff  *)
(* is computed, no runner is invoked, its lock entry is kept as loaded,    *)
(* and it does not make the exit code non-zero.                            *)
(***************************************************************************)
ResolvesToNothing(t) ==
  /\ t \in Selected
  /\ outcome[t] # "none"
  /\ ~touched
  /\ Len(resolveFiles(Sources[t], Exclude[t], dir)) = 0

C24_NoFilesMatched ==
  /\ \A t \in TaskNames : ResolvesToNothing(t) => outcome[t] = "nofiles"
  /\ \A t \in TaskNames :
       outcome[t] = "nofiles" =>
         /\ runnerCalls[t] = 0
         /\ hashed[t] = NoHashes
         /\ passed[t] = <<>>
         /\ TaskEntry(updatedLock.tasks, t) = LoadedEntry(t)
         /\ written # NoWrite => WrittenEntry(t) = LoadedEntry(t)
  /\ anyFailed => \E u \in TaskNames : outcome[u] = "failed"
  /\ (Exited /\ Selected # {} /\ \A u \in Selected : outcome[u] = "nofiles") =>
       exitCode = 0

C24_Witness ==
  /\ Exited
  /\ args.force
  /\ ShouldWrite(args)
  /\ exitCode = 0
  /\ \E t \in Selected :
       /\ ResolvesToNothing(t)
       /\ outcome[t] = "nofiles"
       /\ LoadedEntry(t) # NoEntry
       /\ WrittenEntry(t) = LoadedEntry(t)

(***************************************************************************)
(* C25: resolveFiles returns exactly the existing paths that some source   *)
(* pattern matches and no exclude pattern matches, without duplicates, in  *)
(* ascending lexicographic order, and the same list when the patterns are  *)
(* given in another order.                                                 *)
(***************************************************************************)
ExpectedFiles ==
  {p \in Paths :
     /\ inArg.dir[p] # 0
     /\ \E i \in 1..Len(inArg.sources) : p \in inArg.sources[i]
     /\ \A i \in 1..Len(inArg.exclude) : p \notin inArg.exclude[i]}

C25_ResolveFiles ==
  result # NoResult =>
    /\ SeqToSet(result.files) = ExpectedFiles
    /\ \A i, j \in 1..Len(result.files) :
         i < j => LexLess(result.files[i], result.files[j])
    /\ result.permuted = result.files

C25_Witness ==
  /\ result # NoResult
  /\ Len(inArg.sources) = 2
  /\ inArg.sources[1] \cap inArg.sources[2] # {}
  /\ inArg.sources[1] # inArg.sources[2]
  /\ Len(inArg.exclude) >= 1
  /\ inArg.exclude[1] \cap SeqToSet(resolveFiles(inArg.sources, <<>>, inArg.dir)) # {}
  /\ Len(result.files) = 2

(***************************************************************************)
(* C26: when a task name is given on the command line, only that task is   *)
(* resolved, hashed, diffed and possibly run: no runner of another         *)
(* configured task is invoked and no other task is looked at.              *)
(***************************************************************************)
C26_OnlyNamedTask ==
  args.task # NoTask =>
    \A u \in TaskNames \ {args.task} :
      /\ runnerCalls[u] = 0
      /\ outcome[u] = "none"
      /\ hashed[u] = NoHashes
      /\ ctx # NoCtx => ctx.name # u

C26_Witness ==
  /\ Exited
  /\ args.task \in TaskNames
  /\ Len(config) = 2
  /\ outcome[args.task] = "ok"
  /\ \E u \in SeqToSet(config) \ {args.task} :
       /\ outcome[u] = "none"
       /\ LoadedEntry(u) = NoEntry
       /\ Len(resolveFiles(Sources[u], Exclude[u], dir)) > 0

(***************************************************************************)
(* C27: when the task name given on the command line is not a key of the   *)
(* config's tasks, the process exits with code 1 without reading or        *)
(* writing the lockfile and without invoking a runner.                     *)
(***************************************************************************)
UnknownTask == args.task # NoTask /\ args.task \notin SeqToSet(config)

C27_UnknownTask ==
  (Exited /\ UnknownTask) =>
    /\ exitCode = 1
    /\ reads = 0
    /\ writes = 0
    /\ \A t \in TaskNames : runnerCalls[t] = 0

(***************************************************************************)
(* C28: the payload of assemblePrompt determines both of its fields: two   *)
(* different (prompt, changed-file list) inputs never give the same        *)
(* payload, whatever the prompt text and the paths.                        *)
(***************************************************************************)
C28_PayloadInjective ==
  (result # NoResult /\ inArg.first # inArg.second) => result.first # result.second

(***************************************************************************)
(* C29 as stated: a config in which some task has an empty sources list is *)
(* rejected before any task is processed, with an error message that       *)
(* identifies the offending task; no runner is invoked and no lockfile is  *)
(* read or written.                                                        *)
(***************************************************************************)
RawTasks == configLoad.raw.tasks
Faulty(i) == RawTasks[i][2].prompt = "" \/ RawTasks[i][2].sources = <<>>
EmptySources(i) == RawTasks[i][2].sources = <<>>
SomeEmptySources == configLoad # NoLoad /\ \E i \in 1..Len(RawTasks) : EmptySources(i)

RejectedBeforeProcessing ==
  /\ ~configLoad.result.success
  /\ pc = "exited"
  /\ exitCode = 1
  /\ reads = 0
  /\ writes = 0
  /\ \A t \in TaskNames : runnerCalls[t] = 0 /\ outcome[t] = "none"

\* The path of the reported issue runs through task i.
Identifies(i) ==
  LET path == configLoad.result.issue.path
  IN Len(path) >= 2 /\ path[1] = "tasks" /\ path[2] = RawTasks[i][1]

C29_EmptySourcesAsStated ==
  SomeEmptySources =>
    /\ RejectedBeforeProcessing
    /\ \E i \in 1..Len(RawTasks) : EmptySources(i) /\ Identifies(i)

(***************************************************************************)
(* C29, amended: such a config is rejected before any task is processed,   *)
(* with an error message for the first invalid field in config order: it   *)
(* identifies the task with the empty sources list when the top-level      *)
(* runner and every earlier task are valid, and the runner or the first    *)
(* invalid task otherwise.                                                 *)
(***************************************************************************)
C29_EmptySources ==
  SomeEmptySources =>
    /\ RejectedBeforeProcessing
    /\ configLoad.raw.runner = "" => configLoad.result.issue.path = <<"runner">>
    /\ configLoad.raw.runner # "" =>
         \E i \in 1..Len(RawTasks) :
           /\ Faulty(i)
           /\ \A j \in 1..(i - 1) : ~Faulty(j)
           /\ Identifies(i)

C29_Witness ==
  /\ SomeEmptySources
  /\ pc = "exited"
  /\ configLoad.raw.runner # ""
  /\ ~Faulty(1)
  /\ EmptySources(2)
  /\ configLoad.result.issue.path = <<"tasks", "t2", "sources">>

(***************************************************************************)
(* C30: two invocations running at once are not protected from each        *)
(* other: when both have loaded the lock before either wrote it and each   *)
(* has run a different task with exit code 0, the lockfile left on disk is *)
(* the one of the second writer and lacks the entry the first writer       *)
(* wrote (lost update).                                                    *)
(***************************************************************************)
BothLoadedThenWrote(first, second) ==
  /\ procs[first].pc = "exited"
  /\ procs[second].pc = "exited"
  /\ procs[first].writeSeq = 1
  /\ procs[second].writeSeq = 2
  /\ procs[first].loadedFrom = Missing
  /\ procs[second].loadedFrom = Missing

C30_LostUpdate ==
  \A first, second \in Procs :
    BothLoadedThenWrote(first, second) =>
      /\ lockfile = Serialize(procs[second].written)
      /\ \A t \in procs[first].ran \ procs[second].ran :
           /\ TaskEntry(procs[first].written.tasks, t) # NoEntry
           /\ TaskEntry(Parse(lockfile).tasks, t) = NoEntry

C30_Witness ==
  \E first, second \in Procs :
    /\ BothLoadedThenWrote(first, second)
    /\ procs[first].ran = {"t1"}
    /\ procs[second].ran = {"t2"}
    /\ procs[first].exitCode = 0
    /\ procs[second].exitCode = 0
    /\ TaskEntry(procs[first].written.tasks, "t1") # NoEntry
    /\ TaskEntry(Parse(lockfile).tasks, "t1") = NoEntry

(***************************************************************************)
(* C31: derive --init never overwrites an existing derive.jsonc.  When     *)
(* handleInit finds the file, the process exits with code 1 and the file   *)
(* has the content it had; writeFile is reached only when the file was     *)
(* missing, and then the file holds the starter config and the process     *)
(* exits with code 0.                                                      *)
(***************************************************************************)
RanInit == accessed # NotAccessed

C31_InitKeepsConfig ==
  /\ pc = "writeFile" => accessed = Missing
  /\ (Exited /\ RanInit /\ ~touched) =>
       IF accessed # Missing
       THEN exitCode = 1 /\ configFile = accessed
       ELSE exitCode = 0 /\ configFile = STARTER_CONFIG

\* --init found a derive.jsonc with a text of its owner and left it alone.
C31_Witness ==
  /\ Exited
  /\ RanInit
  /\ ~touched
  /\ accessed = Text(1)
  /\ configFile = Text(1)
  /\ exitCode = 1

(***************************************************************************)
(* C32: starting from a missing lockfile, after any sequence of            *)
(* invocations in any modes, every task entry of the lockfile has          *)
(* sources_hash = computeMerkleRoot(files) for its own files map.          *)
(***************************************************************************)
OnDisk == IF lockfile \in {Missing, Malformed} THEN <<>> ELSE Parse(lockfile).tasks

C32_EntriesConsistent ==
  \A i \in 1..Len(OnDisk) :
    OnDisk[i][2].sources_hash = computeMerkleRoot(OnDisk[i][2].files)

\* The second invocation wrote a lockfile that holds an entry of its own and
\* an entry it carried forward from the first.
C32_Witness ==
  /\ Exited
  /\ invocations = 2
  /\ writes = 1
  /\ Len(OnDisk) = 2
  /\ OnDisk[1][2].last_run # OnDisk[2][2].last_run

(***************************************************************************)
(* C33: for a lock entry the tool produced (or none), in normal mode       *)
(* without --force the runner of a task that matches at least one file is  *)
(* invoked if and only if the task has no lock entry or the current        *)
(* (path, digest) map differs from the files map of its lock entry.        *)
(***************************************************************************)
ToolProduced(e) == e = NoEntry \/ e.sources_hash = computeMerkleRoot(e.files)

MapDiffers == inEntry = NoEntry \/ Pairs(inA) # Pairs(inEntry.files)

C33_RunIffMapDiffers ==
  (/\ result # NoResult
   /\ Len(inA) > 0
   /\ inRoot = computeMerkleRoot(inA)
   /\ ToolProduced(inEntry))
  => (TaskAction(PlainArgs, result) = "running" <=> MapDiffers)

(***************************************************************************)
(* C34: a task whose runner failed stays stale across invocations: with    *)
(* the files unchanged, every later normal-mode invocation that selects it *)
(* invokes its runner again, until the runner exits with 0 in one of them; *)
(* after that, with the files still unchanged, no later invocation without *)
(* --force invokes it.                                                     *)
(*                                                                         *)
(* history[t] tells how the runner of t ended when it last ran, and is     *)
(* kept only while nothing on disk is changed from outside the tool.       *)
(***************************************************************************)
NormalMode == ~args.status /\ ~args.dryRun

LaterInvocation(t) ==
  /\ Exited
  /\ ~touched
  /\ NormalMode
  /\ t \in Selected
  /\ history[t] # NoRun

NoDigest == <<>>
DigestIn(files, p) == IF Has(files, p) THEN Get(files, p) ELSE NoDigest

\* The runner left p with another content, created it or deleted it.
RunnerTouched(p) == DigestIn(inA, p) # DigestIn(inEntry.files, p)

C35_RerunAfterRunnerEdit ==
  (/\ result # NoResult
   /\ inEntry # NoEntry
   /\ ToolProduced(inEntry)
   /\ Len(inA) > 0
   /\ inRoot = computeMerkleRoot(inA)
   /\ \E p \in DiffPaths : RunnerTouched(p))
  => /\ result.changed
     /\ TaskAction(PlainArgs, result) = "running"

(***************************************************************************)
(* C36: the changed-file list handed to the runner is exactly              *)
(* diff.changed_files: removed paths are never included, so a run          *)
(* triggered only by file removals, and a forced run of an unchanged task, *)
(* both pass an empty changed-file list.                                   *)
(***************************************************************************)
\* The diff prepareTask computed for t in this invocation.
DiffOf(t) == diffTask(t, hashed[t], computeMerkleRoot(hashed[t]), LoadedEntry(t))

\* Every file of t has the digest its entry holds: nothing was modified or
\* added since, whatever was removed.
NothingNew(t) ==
  /\ LoadedEntry(t) # NoEntry
  /\ Pairs(hashed[t]) \subseteq Pairs(LoadedEntry(t).files)

C36_ChangedFilesOnly ==
  \A t \in TaskNames :
    runnerCalls[t] > 0 =>
      /\ passed[t] = DiffOf(t).changed_files
      /\ \A i \in 1..Len(passed[t]) : Has(hashed[t], passed[t][i])
      /\ NothingNew(t) => passed[t] = <<>>

\* `derive` ran t1 only because one of its files had been removed, and
\* handed its runner an empty list.
C36_Witness ==
  /\ Exited
  /\ NoFlags
  /\ runnerCalls["t1"] = 1
  /\ NothingNew("t1")
  /\ Len(DiffOf("t1").removed_files) = 1
  /\ passed["t1"] = <<>>

====
